---- MODULE Spec2Model ----
(***************************************************************************)
(* Doppelganger (src/app.py): the duplicate-detection pipeline of          *)
(* MainWindow and the removal of selected duplicates.                      *)
(*                                                                         *)
(* The state is MainWindow's fields (candidates, hashes, hash_progress),   *)
(* the widgets the handlers read back (tree_duplicates, the enabled flag   *)
(* of button_find_duplicates, the three statistics edits), the thread      *)
(* pool's workers and their queued signals, and the filesystem the         *)
(* handlers call into (os.walk, os.path.getsize, open, os.remove), and the *)
(* two lists that configure a scan (list_paths, list_extensions).          *)
(*                                                                         *)
(* Every handler runs on the GUI thread and is one atomic action; a        *)
(* Worker.run is one atomic action of a pool thread.  A Python exception   *)
(* that leaves a handler or a Worker.run ends it at the raising line: the  *)
(* assignments made before that line are kept, the rest is not executed.   *)
(***************************************************************************)
EXTENDS Integers, Sequences, FiniteSets, TLC

\* ------------------------------------------------------------- bounds
NumFiles == 4       \* regular files that exist on the filesystem at start
NumContents == 3    \* distinct byte contents a file may hold
MaxScans == 2       \* clicks on "find duplicates" in one behaviour
MaxVanish == 1      \* files deleted by another process in one behaviour
MaxRoots == 2       \* directories added to list_paths in one behaviour
LastEditScan == 0   \* scan requests after which the two lists stay as they are

\* The regular files of the filesystem.  File 1 lies in /a/sub, file 2 in /a,
\* the others in /b; /l is a symbolic link to the directory /a/sub and
\* /missing does not exist.
Files == 1..NumFiles
Contents == 1..NumContents

InSub(f) == f = 1
InA(f) == f <= 2

\* os.path.join(root, name): the path strings getCandidates can build.  A
\* file of /a/sub has two of them, one through /a and one through /l.
ThroughLink(f) == NumFiles + f
Paths == Files \cup {ThroughLink(f) : f \in {g \in Files : InSub(g)}}

\* The file a path string names.
FileOf(p) == IF p \in Files THEN p ELSE p - NumFiles

\* The directories QFileDialog.selectedFiles() can return.
RootPaths == {"/a", "/a/sub", "/b", "/l", "/missing"}

\* os.walk(root_path) on the disk d: the joined paths of the files below
\* root_path.  A root that is no directory yields nothing (os.walk ignores
\* the error of its scandir); a root that is a link to a directory is
\* listed, under the name of the link.
os_walk(root_path, d) ==
    CASE root_path = "/a" -> {f \in d : InA(f)}
      [] root_path = "/a/sub" -> {f \in d : InSub(f)}
      [] root_path = "/b" -> {f \in d : ~InA(f)}
      [] root_path = "/l" -> {ThroughLink(f) : f \in {g \in d : InSub(g)}}
      [] OTHER -> {}

\* An extension text: whether it starts with '.', and the letters after it.
ExtText(dot, letters) == [dot |-> dot, letters |-> letters]

\* os.path.splitext(name)[1] of the files: .jpg, .JPG, none, .txt.
splitext(p) ==
    CASE FileOf(p) % 4 = 1 -> ExtText(TRUE, "jpg")
      [] FileOf(p) % 4 = 2 -> ExtText(TRUE, "JPG")
      [] FileOf(p) % 4 = 3 -> ExtText(FALSE, "")
      [] OTHER -> ExtText(TRUE, "txt")

\* str.lower() of an extension text.
lower(text) ==
    [text EXCEPT !.letters = IF text.letters = "JPG" THEN "jpg"
                             ELSE text.letters]

\* The texts typed into the QInputDialog of onButtonExtAddClicked.
TypedTexts == {ExtText(FALSE, "jpg"), ExtText(TRUE, "JPG")}

\* The text of an edit after setText('').
Blank == -1

VARIABLES
    list_paths,                 \* the items of list_paths (scan roots)
    list_extensions,            \* the items of list_extensions
    disk,                       \* the files that exist on the filesystem
    content,                    \* the bytes of each file (fixed)
    removed,                    \* paths os.remove deleted since the scan request
    vanished,                   \* files another process has deleted
    candidates,                 \* MainWindow.candidates (list)
    hashes,                     \* MainWindow.hashes (dict digest -> list)
    hash_progress,              \* MainWindow.hash_progress
    tree_duplicates,            \* top-level items of the tree, with children
    button_find_duplicates,     \* isEnabled() of the scan button
    edit_possible_duplicates,   \* the three statistics edits
    edit_num_duplicates,
    edit_size_duplicates,
    file_paths,                 \* getCandidates' file_paths of the last walk
    walker,                     \* the getCandidates worker
    pending,                    \* sha256 workers started and not yet run
    results,                    \* result signals queued for the GUI thread
    failed,                     \* sha256 workers whose run raised
    removal,                    \* how the last removal batch ended
    scans                       \* scans started

vars == <<list_paths, list_extensions, disk, content, removed, vanished,
          candidates, hashes, hash_progress, tree_duplicates,
          button_find_duplicates, edit_possible_duplicates,
          edit_num_duplicates, edit_size_duplicates, file_paths, walker,
          pending, results, failed, removal, scans>>

\* The two configuration lists, which only their own handlers change.
config == <<list_paths, list_extensions>>

\* ------------------------------------------------------------ helpers
Range(s) == {s[i] : i \in 1..Len(s)}

\* list.remove(x): drops the first occurrence of x.  Where x may be missing
\* the caller tests for it first (Python raises ValueError there).
ListRemove(s, x) ==
    IF x \notin Range(s) THEN s
    ELSE LET i == CHOOSE j \in 1..Len(s) :
                      s[j] = x /\ \A m \in 1..(j - 1) : s[m] # x
         IN  SubSeq(s, 1, i - 1) \o SubSeq(s, i + 1, Len(s))

\* dict[k] = v and dict.pop(k).
DictSet(d, k, v) == [x \in DOMAIN d \cup {k} |-> IF x = k THEN v ELSE d[x]]
DictPop(d, k) == [x \in DOMAIN d \ {k} |-> d[x]]
EmptyDict == [x \in {} |-> <<>>]

\* A set as a list, in one iteration order (no handler reads positions of
\* the lists built from it, only membership and first occurrences).
RECURSIVE SetToSeq(_)
SetToSeq(S) ==
    IF S = {} THEN <<>>
    ELSE LET x == CHOOSE y \in S : \A z \in S : y <= z
         IN  <<x>> \o SetToSeq(S \ {x})

RECURSIVE Sum(_, _)
Sum(f, S) ==
    IF S = {} THEN 0
    ELSE LET x == CHOOSE y \in S : TRUE IN f[x] + Sum(f, S \ {x})

\* --------------------------------------------------------- filesystem
\* os.path.getsize of a file holding content c, in bytes: two contents may
\* have one size.
SizeOfContent(c) == ((c + 1) \div 2) * 1300000

\* The bytes read through a path string.
read(p) == content[FileOf(p)]

getsize(p) == SizeOfContent(read(p))

\* hashlib.sha256 over the chunks of the file: the digest of content c.
hexdigest(c) == 100 + c

\* FileHasher.sha256: (digest, path).  open() raises when the path is gone.
sha256(p) == <<hexdigest(read(p)), p>>

\* ------------------------------------------------------ getCandidates
\* The os.walk loops over root_paths: the joined paths of the regular files
\* below the roots (no file of the model is a link, so os.path.islink skips
\* none).
Listed(root_paths, d) == UNION {os_walk(root_path, d) : root_path \in root_paths}

\* Lines 305-306 for one file name: with a non-empty extension list the test
\* evaluates extensions.lower(), and a list has no attribute 'lower'
\* (AttributeError); with an empty list the test is not reached.
FilterRaises(extensions) == extensions # {}

\* The walk raises at the first file name it visits under a non-empty
\* extension list.
WalkRaises(root_paths, extensions, d) ==
    Listed(root_paths, d) # {} /\ FilterRaises(extensions)

\* file_paths after list(set(file_paths)): equal strings are one path.
Walk == Listed(list_paths, disk)

\* os.path.getsize raises on a path whose file is gone.
SizesRaise(paths, d) == \E p \in paths : FileOf(p) \notin d

\* file_sizes: { size: [paths] } over a list of paths.
FileSizes(paths) ==
    [size \in {getsize(p) : p \in paths} |->
        SetToSeq({p \in paths : getsize(p) = size})]

\* The filter with its bound off by one: a bucket needs 3 files.
MoreThanOneFile_MoreThanTwo(files) == Len(files) > 2

\* filter(lambda files: len(files) > 1, ...)
MoreThanOneFile(files) == Len(files) > 1

RECURSIVE ExtendAll(_, _, _)
ExtendAll(acc, buckets, sizes) ==
    IF sizes = {} THEN acc
    ELSE LET size == CHOOSE x \in sizes : \A y \in sizes : x <= y
             next == IF MoreThanOneFile(buckets[size])
                     THEN acc \o buckets[size] ELSE acc
         IN  ExtendAll(next, buckets, sizes \ {size})

\* self.candidates after getCandidates on a walk that found `paths`.
CandidatesOf(cands, paths) ==
    LET file_sizes == FileSizes(paths)
    IN  ExtendAll(cands, file_sizes, DOMAIN file_sizes)

\* Worker.run of the getCandidates worker, on a pool thread, up to the end
\* of the walk (line 316).  The worker runs beside the other processes of the
\* machine, which may delete a file between the listing and the size reads:
\* the run is two steps.  An exception ends the run; Worker.run has no
\* handler, so neither result nor finished is emitted.
getCandidates_walk ==
    /\ walker = "started"
    /\ IF WalkRaises(list_paths, list_extensions, disk)
       THEN /\ walker' = "raised"
            /\ UNCHANGED file_paths
       ELSE /\ walker' = "walked"
            /\ file_paths' = Walk
    /\ UNCHANGED <<config, disk, content, removed, vanished, candidates, hashes,
                   hash_progress, tree_duplicates, button_find_duplicates,
                   edit_possible_duplicates, edit_num_duplicates,
                   edit_size_duplicates, pending, results, failed,
                   removal, scans>>

\* The rest of the run: the size buckets (os.path.getsize of every path),
\* the extension of self.candidates, then finished.emit().
getCandidates ==
    /\ walker = "walked"
    /\ IF SizesRaise(file_paths, disk)
       THEN /\ walker' = "raised"
            /\ UNCHANGED candidates
       ELSE /\ walker' = "finished"
            /\ candidates' = CandidatesOf(candidates, file_paths)
    /\ UNCHANGED <<config, disk, content, removed, vanished, hashes,
                   hash_progress, tree_duplicates, button_find_duplicates,
                   edit_possible_duplicates, edit_num_duplicates,
                   edit_size_duplicates, file_paths, pending, results, failed,
                   removal, scans>>

\* ------------------------------------------------- the configuration lists
\* The clicked signal of button_path_add with `path` chosen in the dialog.
onButtonPathAddClicked(path) ==
    /\ scans <= LastEditScan
    /\ Cardinality(list_paths) < MaxRoots
    /\ path \notin list_paths
    /\ list_paths' = list_paths \cup {path}
    /\ UNCHANGED <<list_extensions, disk, content, removed, vanished,
                   candidates, hashes, hash_progress, tree_duplicates,
                   button_find_duplicates, edit_possible_duplicates,
                   edit_num_duplicates, edit_size_duplicates, file_paths,
                   walker, pending, results, failed, removal, scans>>

\* if not text.startswith('.'): text = f'.{text}'
WithDot(text) == [text EXCEPT !.dot = TRUE]

\* The clicked signal of button_ext_add with `text` typed and confirmed.
onButtonExtAddClicked(text) ==
    /\ scans <= LastEditScan
    /\ WithDot(text) \notin list_extensions
    /\ list_extensions' = list_extensions \cup {WithDot(text)}
    /\ UNCHANGED <<list_paths, disk, content, removed, vanished,
                   candidates, hashes, hash_progress, tree_duplicates,
                   button_find_duplicates, edit_possible_duplicates,
                   edit_num_duplicates, edit_size_duplicates, file_paths,
                   walker, pending, results, failed, removal, scans>>

\* No RemoveSelectedDialog has been run since the scan was requested.
NoDialog == "none"

\* The handler without self.candidates.clear(): the candidate list of the
\* scan before is kept.
onButtonFindDuplicatesClicked_KeepsCandidates ==
    /\ button_find_duplicates
    /\ scans < MaxScans
    /\ button_find_duplicates' = FALSE
    /\ edit_possible_duplicates' = Blank
    /\ edit_num_duplicates' = Blank
    /\ edit_size_duplicates' = Blank
    /\ tree_duplicates' = EmptyDict
    /\ hashes' = EmptyDict
    /\ hash_progress' = 0
    /\ walker' = "started"
    /\ failed' = {}
    /\ removal' = NoDialog
    /\ removed' = {}
    /\ file_paths' = {}
    /\ scans' = scans + 1
    /\ UNCHANGED <<config, disk, content, vanished, pending, results,
                   candidates>>

\* The clicked signal of button_find_duplicates: a disabled button emits none.
onButtonFindDuplicatesClicked ==
    /\ button_find_duplicates
    /\ scans < MaxScans
    /\ button_find_duplicates' = FALSE
    /\ edit_possible_duplicates' = Blank
    /\ edit_num_duplicates' = Blank
    /\ edit_size_duplicates' = Blank
    /\ tree_duplicates' = EmptyDict
    /\ candidates' = <<>>
    /\ hashes' = EmptyDict
    /\ hash_progress' = 0
    /\ walker' = "started"
    /\ failed' = {}
    /\ removal' = NoDialog
    /\ removed' = {}
    /\ file_paths' = {}
    /\ scans' = scans + 1
    /\ UNCHANGED <<config, disk, content, vanished, pending, results>>

\* The test for an empty candidate list, never true.
NoCandidates_Never(cands) == Len(cands) < 0

\* if not self.candidates
NoCandidates(cands) == cands = <<>>

\* The finished signal of the getCandidates worker, on the GUI thread.
onCandidatesReceived ==
    /\ walker = "finished"
    /\ walker' = "none"
    /\ IF NoCandidates(candidates)
       THEN /\ edit_possible_duplicates' = 0
            /\ button_find_duplicates' = TRUE
            /\ UNCHANGED pending
       ELSE /\ edit_possible_duplicates' = Len(candidates)
            /\ pending' = pending \cup Range(candidates)
            /\ UNCHANGED button_find_duplicates
    /\ UNCHANGED <<config, disk, content, removed, vanished, candidates, hashes,
                   hash_progress, tree_duplicates, edit_num_duplicates,
                   edit_size_duplicates, file_paths, results, failed, removal,
                   scans>>

\* Worker.run of one sha256 worker: the result is emitted only when
\* FileHasher.sha256 returns; open() on a path that is gone raises and the
\* run ends without a signal.
Worker_run(p) ==
    /\ p \in pending
    /\ pending' = pending \ {p}
    /\ IF FileOf(p) \in disk
       THEN /\ results' = Append(results, sha256(p))
            /\ UNCHANGED failed
       ELSE /\ failed' = failed \cup {p}
            /\ UNCHANGED results
    /\ UNCHANGED <<config, disk, content, removed, vanished, candidates, hashes,
                   hash_progress, tree_duplicates, button_find_duplicates,
                   edit_possible_duplicates, edit_num_duplicates,
                   edit_size_duplicates, file_paths, walker, removal, scans>>

\* ------------------------------------------------- update_duplicate_info
\* The three texts set at the end of update_duplicate_info.  getsize(files[0])
\* raises when files[0] is gone (and files[0] when the list is empty); the
\* setText calls come after the loop, so none of them runs then.
Stats(num, size, possible) == [num |-> num, size |-> size, possible |-> possible]

\* f'{x: .1f}' of a size in MB: the text, as a number of tenths of a MB.
TenthsOfMB(bytes) == (bytes + 50000) \div 100000

InfoRaises(h, d) ==
    \E k \in DOMAIN h : h[k] = <<>> \/ FileOf(h[k][1]) \notin d

update_duplicate_info(h, cands) ==
    LET dups == [k \in DOMAIN h |-> Len(h[k]) - 1]
        size == [k \in DOMAIN h |-> getsize(h[k][1]) * (Len(h[k]) - 1)]
    IN  Stats(Sum(dups, DOMAIN h),
              TenthsOfMB(Sum(size, DOMAIN h)),
              Len(cands))

\* ------------------------------------------------------------ hashingDone
\* The test for a list of one file, never true: no list is pruned.
SingleFile_Never(files) == Len(files) = 0

\* if len(files) == 1
SingleFile(files) == Len(files) = 1

\* The loop over single_files without self.candidates.remove(single_file).
RemoveFirsts_KeepsAll(cands, h, keys) == cands

RECURSIVE RemoveFirsts(_, _, _)
RemoveFirsts(cands, h, keys) ==
    IF keys = {} THEN cands
    ELSE LET k == CHOOSE x \in keys : TRUE
         IN  RemoveFirsts(ListRemove(cands, h[k][1]), h, keys \ {k})

\* hashingDone on the mapping h and the candidate list cands: the state it
\* leaves.  The button is re-enabled first; getsize(files[0]) of a group whose
\* first file is gone raises before anything else is changed.
hashingDone(h, cands) ==
    LET singles == {k \in DOMAIN h : SingleFile(h[k])}
        groups == DOMAIN h \ singles
        kept == [k \in groups |-> h[k]]
        cands1 == RemoveFirsts(cands, h, singles)
    IN  IF InfoRaises(kept, disk)
        THEN [hashes |-> h,
              candidates |-> cands,
              tree |-> tree_duplicates,
              stats |-> Stats(edit_num_duplicates, edit_size_duplicates,
                              edit_possible_duplicates)]
        ELSE [hashes |-> kept,
              candidates |-> cands1,
              tree |-> kept,
              stats |-> update_duplicate_info(kept, cands1)]

\* ------------------------------------------------------ onFileHasherResult
\* The completion test one result short.
AllHashed_OneShort(progress, cands) == progress = Len(cands) - 1

\* if self.hash_progress == len(self.candidates)
AllHashed(progress, cands) == progress = Len(cands)

\* The list of a digest set to the new path alone.
AppendPath_Overwrites(files, file_path) == <<file_path>>

\* self.hashes[file_hash].append(file_path)
AppendPath(files, file_path) == Append(files, file_path)

\* The result signal of a sha256 worker, on the GUI thread.
onFileHasherResult ==
    /\ results # <<>>
    /\ LET file_hash == Head(results)[1]
           file_path == Head(results)[2]
           files == IF file_hash \in DOMAIN hashes THEN hashes[file_hash]
                    ELSE <<>>
           h1 == DictSet(hashes, file_hash, AppendPath(files, file_path))
           done == hashingDone(h1, candidates)
       IN  /\ results' = Tail(results)
           /\ hash_progress' = hash_progress + 1
           /\ IF AllHashed(hash_progress + 1, candidates)
              THEN /\ button_find_duplicates' = TRUE
                   /\ hashes' = done.hashes
                   /\ candidates' = done.candidates
                   /\ tree_duplicates' = done.tree
                   /\ edit_num_duplicates' = done.stats.num
                   /\ edit_size_duplicates' = done.stats.size
                   /\ edit_possible_duplicates' = done.stats.possible
              ELSE /\ hashes' = h1
                   /\ UNCHANGED <<button_find_duplicates, candidates,
                                  tree_duplicates, edit_num_duplicates,
                                  edit_size_duplicates,
                                  edit_possible_duplicates>>
    /\ UNCHANGED <<config, disk, content, removed, vanished, file_paths, walker,
                   pending, failed, removal, scans>>

\* ------------------------------------------- RemoveSelectedDialog.accept
\* The os.remove loop over self.selected: the paths it deletes.  os.remove
\* raises on a path that is gone, which ends the loop and leaves the dialog
\* open (super().accept() is not reached); the dialog can then only be
\* rejected.
RECURSIVE accept(_, _)
accept(selected, d) ==
    IF selected = <<>> \/ FileOf(Head(selected)) \notin d THEN {}
    ELSE {Head(selected)}
             \cup accept(Tail(selected), d \ {FileOf(Head(selected))})

\* exec() returns QDialog.Accepted only when every os.remove returned.
Accepted(selected, d) == accept(selected, d) = Range(selected)

\* ------------------------------------------ onButtonRemoveSelectedClicked
\* The collapse test with < for <=: a group of one child is kept.
GroupCollapsed_Strict(childCount) == childCount < 1

\* if parent.childCount() <= 1
GroupCollapsed(childCount) == childCount <= 1

\* The comprehension of line 262 without its condition: every key.
Holders_AnyKey(h, file_path) == DOMAIN h

\* [k for k, v in self.hashes.items() if file_path in v]
Holders(h, file_path) == {k \in DOMAIN h : file_path \in Range(h[k])}

\* The body of the for loop for one item.  `raised` is set when line 262 (no
\* list of self.hashes holds the path) or line 269 raises.
RemoveItem(st, file_path) ==
    LET holders == Holders(st.hashes, file_path)
        file_hash == CHOOSE k \in holders : TRUE
        files == ListRemove(st.hashes[file_hash], file_path)
        h1 == DictSet(st.hashes, file_hash, files)
        parents == {k \in DOMAIN st.tree : file_path \in Range(st.tree[k])}
        parent == CHOOSE k \in parents : TRUE
        children == ListRemove(st.tree[parent], file_path)
    IN  IF holders = {} THEN [st EXCEPT !.raised = TRUE]
        ELSE IF parents = {} THEN [st EXCEPT !.hashes = h1]
        ELSE IF ~GroupCollapsed(Len(children))
        THEN [st EXCEPT !.hashes = h1,
                        !.tree = DictSet(st.tree, parent, children)]
        ELSE IF files = <<>> \/ files[1] \notin Range(st.candidates)
        THEN [st EXCEPT !.hashes = h1,
                        !.tree = DictPop(st.tree, parent),
                        !.raised = TRUE]
        ELSE [st EXCEPT !.hashes = DictPop(h1, file_hash),
                        !.tree = DictPop(st.tree, parent),
                        !.candidates = ListRemove(st.candidates, files[1])]

RECURSIVE RemoveItems(_, _)
RemoveItems(st, items) ==
    IF items = <<>> \/ st.raised THEN st
    ELSE RemoveItems(RemoveItem(st, Head(items)), Tail(items))

\* The lists tree_duplicates.selectedItems() can return: a non-empty set of
\* the path items shown, in any order.
RECURSIVE Orders(_)
Orders(S) ==
    IF S = {} THEN {<<>>}
    ELSE UNION {{<<x>> \o t : t \in Orders(S \ {x})} : x \in S}

Selections ==
    LET shown == UNION {Range(tree_duplicates[k]) : k \in DOMAIN tree_duplicates}
    IN  UNION {Orders(T) : T \in (SUBSET shown) \ {{}}}

\* The clicked signal of button_remove_selected with `items` selected.
onButtonRemoveSelectedClicked(items) ==
    LET deleted == accept(items, disk)
        st == RemoveItems([hashes |-> hashes, candidates |-> candidates,
                           tree |-> tree_duplicates, raised |-> FALSE], items)
        info == update_duplicate_info(st.hashes, st.candidates)
        gone == disk \ {FileOf(p) : p \in deleted}
    IN  /\ disk' = gone
        /\ removed' = removed \cup deleted
        /\ IF ~Accepted(items, disk)
           THEN /\ removal' = "rejected"
                /\ UNCHANGED <<hashes, candidates, tree_duplicates,
                               edit_num_duplicates, edit_size_duplicates,
                               edit_possible_duplicates>>
           ELSE /\ hashes' = st.hashes
                /\ candidates' = st.candidates
                /\ tree_duplicates' = st.tree
                /\ IF st.raised \/ InfoRaises(st.hashes, gone)
                   THEN /\ removal' = "raised"
                        /\ UNCHANGED <<edit_num_duplicates,
                                       edit_size_duplicates,
                                       edit_possible_duplicates>>
                   ELSE /\ removal' = "accepted"
                        /\ edit_num_duplicates' = info.num
                        /\ edit_size_duplicates' = info.size
                        /\ edit_possible_duplicates' = info.possible
        /\ UNCHANGED <<config, content, vanished, hash_progress,
                       button_find_duplicates, file_paths, walker, pending,
                       results, failed, scans>>

\* ---------------------------------------------------------- environment
\* Another process deletes a file (or revokes access to it): from then on
\* open(), os.path.getsize() and os.remove() on it raise.
Vanish(f) ==
    /\ f \in disk
    /\ vanished < MaxVanish
    /\ disk' = disk \ {f}
    /\ vanished' = vanished + 1
    /\ UNCHANGED <<config, content, removed, candidates, hashes, hash_progress,
                   tree_duplicates, button_find_duplicates,
                   edit_possible_duplicates, edit_num_duplicates,
                   edit_size_duplicates, file_paths, walker, pending,
                   results, failed, removal, scans>>

\* ------------------------------------------------------- specification
\* MainWindow.__init__, over every assignment of contents to the files.
Init ==
    /\ list_paths = {}
    /\ list_extensions = {}
    /\ disk = Files
    /\ content \in [Files -> Contents]
    /\ removed = {}
    /\ vanished = 0
    /\ candidates = <<>>
    /\ hashes = EmptyDict
    /\ hash_progress = 0
    /\ tree_duplicates = EmptyDict
    /\ button_find_duplicates = TRUE
    /\ edit_possible_duplicates = Blank
    /\ edit_num_duplicates = Blank
    /\ edit_size_duplicates = Blank
    /\ file_paths = {}
    /\ walker = "none"
    /\ pending = {}
    /\ results = <<>>
    /\ failed = {}
    /\ removal = NoDialog
    /\ scans = 0

Next ==
    \/ \E path \in RootPaths : onButtonPathAddClicked(path)
    \/ \E text \in TypedTexts : onButtonExtAddClicked(text)
    \/ onButtonFindDuplicatesClicked
    \/ getCandidates_walk
    \/ getCandidates
    \/ onCandidatesReceived
    \/ \E p \in Paths : Worker_run(p)
    \/ onFileHasherResult
    \/ \E items \in Selections : onButtonRemoveSelectedClicked(items)
    \/ \E f \in Files : Vanish(f)

Spec == Init /\ [][Next]_vars

\* ------------------------------------------------------------ vocabulary
\* The paths held by the lists of a mapping.
Members(h) == UNION {Range(h[k]) : k \in DOMAIN h}

\* hashingDone has run to its end: update_duplicate_info has set the texts
\* that the scan request blanked.
ScanCompleted == edit_num_duplicates # Blank

\* Every sha256 worker has run and every queued result has been handled.
BatchSettled == walker = "none" /\ pending = {} /\ results = <<>>

\* The files of the last walk with the bytes of p.
ClassOf(p) == {q \in file_paths : read(q) = read(p)}

\* The files of the last walk that share their size with another one.
SharesSize(p) == \E q \in file_paths \ {p} : getsize(q) = getsize(p)

\* While a worker is queued or a signal is pending the scan control is
\* disabled, so a scan is never requested over a scan in flight.
ScanControlDisabledInFlight ==
    (walker # "none" \/ pending # {} \/ results # <<>>) =>
        ~button_find_duplicates

\* ---------------------------------------------------------------- C1
\* C1: when a hash task of a batch fails, it fails alone: once every task
\* has ended and every result is handled, every other candidate has its
\* fingerprint in the mapping, the failed file is in no group, and the batch
\* has completed (the scan control is enabled again).
C1_FailedTaskFailsAlone ==
    (scans > 0 /\ BatchSettled /\ failed # {}) =>
        /\ \A p \in Range(candidates) \ failed : p \in Members(hashes)
        /\ failed \cap Members(hashes) = {}
        /\ failed \cap Members(tree_duplicates) = {}
        /\ button_find_duplicates

\* ---------------------------------------------------------------- C2
\* C2: in a removal batch every confirmed path is attempted on its own:
\* whatever happens to the others, a path of the batch that is on disk is
\* deleted by the batch.
C2_DeletionIsPerPath ==
    [][\A items \in Selections :
          onButtonRemoveSelectedClicked(items) =>
              \A p \in Range(items) :
                  FileOf(p) \in disk => FileOf(p) \notin disk']_vars

\* ---------------------------------------------------------------- C3
\* C3: a path the removal has deleted from disk is in no list of the
\* mapping, under no group of the tree, and not in the candidate list.
C3_DeletedPathsAreRetracted ==
    /\ removed \cap Members(hashes) = {}
    /\ removed \cap Members(tree_duplicates) = {}
    /\ removed \cap Range(candidates) = {}

\* ---------------------------------------------------------------- C4
\* C4: once all members but one of a presented group have been removed (the
\* last one is still on disk), the group is dissolved: its fingerprint is no key of the mapping, it is no
\* group of the tree, and the remaining file is not a candidate.
C4_AllButOneDissolves ==
    ScanCompleted =>
        \A p \in file_paths :
            (/\ Cardinality(ClassOf(p)) >= 2
             /\ ClassOf(p) \ removed = {p}
             /\ FileOf(p) \in disk) =>
                /\ hexdigest(read(p)) \notin DOMAIN hashes
                /\ hexdigest(read(p)) \notin DOMAIN tree_duplicates
                /\ p \notin Range(candidates)

\* ---------------------------------------------------------------- C5
\* C5: every group shown in the tree has at least 2 members, and from scan
\* completion onward, through every removal batch, every list of the
\* fingerprint mapping has at least 2 members.
C5_GroupsHaveTwoMembers ==
    /\ \A k \in DOMAIN tree_duplicates : Len(tree_duplicates[k]) >= 2
    /\ ScanCompleted => \A k \in DOMAIN hashes : Len(hashes[k]) >= 2

\* A removal batch was accepted, one presented group is dissolved and another
\* is still held.
C5_Witness ==
    /\ ScanCompleted
    /\ removal = "accepted"
    /\ DOMAIN hashes # {}
    /\ \E p \in file_paths :
          /\ Cardinality(ClassOf(p)) >= 2
          /\ hexdigest(read(p)) \notin DOMAIN hashes

\* ---------------------------------------------------------------- C6
\* C6: the step that runs hashingDone (a result is handled and the scan
\* control becomes enabled) happens only when the results received equal
\* the candidates dispatched (the count shown when they were dispatched),
\* with no task still to run, no result still queued and none failed.
C6_CompletionIsCountingBarrier ==
    [][(walker = "none" /\ ~button_find_duplicates /\ button_find_duplicates') =>
          /\ hash_progress' = edit_possible_duplicates
          /\ pending = {}
          /\ results' = <<>>
          /\ failed = {}]_vars

\* hashingDone has run on a batch of at least 3 dispatched candidates.
C6_Witness ==
    /\ ScanCompleted
    /\ removal = NoDialog
    /\ hash_progress >= 3
    /\ DOMAIN tree_duplicates # {}

\* ---------------------------------------------------------------- C8
\* C8: the groups presented at scan completion (before any removal) are the
\* classes of identical content of size >= 2 among the scanned files, in the
\* tree and in the mapping, each file once.
C8_GroupsAreContentClasses ==
    (ScanCompleted /\ removal = NoDialog) =>
        LET classes == {c \in {ClassOf(p) : p \in file_paths} :
                            Cardinality(c) >= 2}
        IN  /\ {Range(tree_duplicates[k]) : k \in DOMAIN tree_duplicates}
                   = classes
            /\ {Range(hashes[k]) : k \in DOMAIN hashes} = classes
            /\ \A k \in DOMAIN hashes :
                  Len(hashes[k]) = Cardinality(Range(hashes[k]))

\* Two files with the same bytes are in one group and a third one of the
\* same size, with bytes of its own, is in none.
C8_Witness ==
    /\ ScanCompleted
    /\ removal = NoDialog
    /\ \E p, q, r \in file_paths :
          /\ p # q
          /\ read(p) = read(q)
          /\ ClassOf(r) = {r}
          /\ getsize(r) = getsize(p)
          /\ \E k \in DOMAIN tree_duplicates :
                {p, q} \subseteq Range(tree_duplicates[k])
          /\ r \notin Members(tree_duplicates)

\* ---------------------------------------------------------------- C9
\* C9: the candidate list getCandidates leaves is, as a set and without
\* repetition, the files that share their size with another file of the
\* walk; so two files with the same bytes are both candidates and a file of
\* a size of its own is none.
C9_CandidatesAreSharedSizes ==
    walker = "finished" =>
        /\ Range(candidates) = {p \in file_paths : SharesSize(p)}
        /\ Len(candidates) = Cardinality(Range(candidates))
        /\ \A p, q \in file_paths :
              (p # q /\ read(p) = read(q)) =>
                  {p, q} \subseteq Range(candidates)

\* A walk with a pair of identical files, which are candidates, and a file of
\* a size of its own, which is not.
C9_Witness ==
    /\ walker = "finished"
    /\ \E p, q, r \in file_paths :
          /\ p # q
          /\ read(p) = read(q)
          /\ ~SharesSize(r)
          /\ {p, q} \subseteq Range(candidates)
          /\ r \notin Range(candidates)

\* ---------------------------------------------------------------- C10
\* C10: from scan completion onward, after every removal batch, the texts
\* show the redundant count and size summed over the lists now in the
\* mapping and the length of the candidate list.
C10_StatisticsAreRecomputed ==
    ScanCompleted =>
        LET dups == [k \in DOMAIN hashes |-> Len(hashes[k]) - 1]
            size == [k \in DOMAIN hashes |->
                        IF hashes[k] = <<>> THEN 0
                        ELSE getsize(hashes[k][1]) * (Len(hashes[k]) - 1)]
        IN  /\ edit_num_duplicates = Sum(dups, DOMAIN hashes)
            /\ edit_size_duplicates = TenthsOfMB(Sum(size, DOMAIN hashes))
            /\ edit_possible_duplicates = Len(candidates)

\* ---------------------------------------------------------------- C11
\* The path filter as stated: every file passes an empty extension list; a
\* non-empty one passes a file whose extension, lower-cased and with its
\* dot, is one of the list's entries lower-cased.
Accepts(p, extensions) ==
    extensions = {} \/ lower(splitext(p)) \in {lower(text) : text \in extensions}

\* C11: the walk keeps exactly the files the path filter accepts (every file
\* under an empty extension list, none without an extension under a
\* non-empty one), and the enumeration of a scan with a non-empty extension
\* list runs to its end.
C11_FilterKeepsAcceptedFiles ==
    /\ list_extensions # {} => walker # "raised"
    /\ (walker = "walked" /\ vanished = 0) =>
           file_paths = {p \in Listed(list_paths, disk) :
                            Accepts(p, list_extensions)}

\* ---------------------------------------------------------------- C12
\* No two entries of a list name one file.
OneEntryPerFile(files) ==
    \A i, j \in 1..Len(files) :
        i # j => FileOf(files[i]) # FileOf(files[j])

\* C12: a file reachable from two scan roots (nested roots, or two root
\* paths that name one directory) is enumerated once: no file has two
\* entries in the candidate list, and no group, in the mapping or in the
\* tree, has two entries that name the same file on disk.
C12_FilesAreEnumeratedOnce ==
    /\ OneEntryPerFile(candidates)
    /\ \A k \in DOMAIN hashes : OneEntryPerFile(hashes[k])
    /\ \A k \in DOMAIN tree_duplicates : OneEntryPerFile(tree_duplicates[k])

\* ---------------------------------------------------------------- C13
\* C13: with no extension list in the way, the enumeration is never aborted
\* by the filesystem: a root that does not exist is skipped and the files
\* of the other roots are enumerated, and a file that cannot be stat'ed
\* (it vanished after it was listed) is skipped, so the run of the
\* getCandidates worker always reaches finished.emit().
C13_EnumerationSurvivesTheFilesystem ==
    list_extensions = {} =>
        /\ walker # "raised"
        /\ walker = "walked" =>
               Listed(list_paths \ {"/missing"}, disk) \subseteq file_paths

\* ---------------------------------------------------------------- C14
\* C14: while list_paths holds no scan root no scan starts: no step starts
\* the getCandidates worker or a sha256 worker, and none resets the session
\* state (candidates, mapping, progress counter, tree, statistics texts,
\* scan control).
C14_NoScanWithoutRoots ==
    [][list_paths = {} =>
          UNCHANGED <<walker, pending, candidates, hashes, hash_progress,
                      tree_duplicates, button_find_duplicates,
                      edit_possible_duplicates, edit_num_duplicates,
                      edit_size_duplicates>>]_vars

\* ---------------------------------------------------------------- C15
\* C15: when the enumeration ends with no candidate, the step that receives
\* it ends the scan: no sha256 worker is started and no result is in
\* flight, the progress counter stays 0, the candidate count shown is 0 and
\* the scan control is enabled again; and a result is never queued while
\* the candidate list is empty, so the progress ratio of onFileHasherResult
\* is never computed against a total of 0.
C15_EmptyEnumerationEndsTheScan ==
    [][/\ (walker = "finished" /\ candidates = <<>> /\ walker' = "none") =>
              /\ pending' = {}
              /\ results' = <<>>
              /\ hash_progress' = 0
              /\ edit_possible_duplicates' = 0
              /\ button_find_duplicates'
       /\ results' # <<>> => candidates' # <<>>]_vars

\* A scan over at least two files, no two of one size, has ended with the
\* empty result.
C15_Witness ==
    /\ scans > 0
    /\ walker = "none"
    /\ Cardinality(file_paths) >= 2
    /\ candidates = <<>>
    /\ edit_possible_duplicates = 0
    /\ edit_num_duplicates = Blank
    /\ button_find_duplicates

\* ---------------------------------------------------------------- C16
\* C16: right after a scan request the candidate list and the mapping are
\* empty and the progress counter is 0; and what a completed scan holds and
\* shows (mapping, tree, candidate list, and, before any removal, the
\* statistics) is made of paths its own walk enumerated only.
C16_SessionIsResetPerScan ==
    /\ walker = "started" =>
           /\ candidates = <<>>
           /\ hashes = EmptyDict
           /\ hash_progress = 0
           /\ tree_duplicates = EmptyDict
    /\ ScanCompleted =>
           /\ Members(hashes) \subseteq file_paths
           /\ Members(tree_duplicates) \subseteq file_paths
           /\ Range(candidates) \subseteq file_paths
    /\ (ScanCompleted /\ removal = NoDialog) =>
           /\ edit_possible_duplicates = Cardinality(Members(hashes))
           /\ edit_num_duplicates =
                  Cardinality(Members(hashes)) - Cardinality(DOMAIN hashes)

\* A second scan has completed with a group, after a scan whose removal
\* deleted a file.
C16_Witness ==
    /\ scans = 2
    /\ ScanCompleted
    /\ removal = NoDialog
    /\ DOMAIN tree_duplicates # {}
    /\ Cardinality(disk) + vanished < NumFiles

\* ---------------------------------------------------------------- C17
\* C17: while no filesystem operation has failed (no file was deleted under
\* the scan), a started scan is never left without its terminal event: the
\* getCandidates worker does not end without finished, and once no worker
\* and no signal is left the scan control is enabled again.  The step that
\* runs hashingDone happens once per scan (not again after it completed),
\* and while results are counted the progress counter does not exceed the
\* number of candidates.
C17_ScanReachesOneTerminalEvent ==
    [][vanished = 0 =>
          /\ walker' # "raised"
          /\ (scans' > 0 /\ BatchSettled') => button_find_duplicates'
          /\ (walker = "none" /\ ~button_find_duplicates
                  /\ button_find_duplicates') => ~ScanCompleted
          /\ ~button_find_duplicates' => hash_progress' <= Len(candidates')]_vars

\* ---------------------------------------------------------------- C18
\* The content classes of two files or more among the files of the walk.
Classes == {c \in {ClassOf(p) : p \in file_paths} : Cardinality(c) >= 2}

\* C18: the outcome of a scan is fixed by the files walked, whatever the
\* order in which the sha256 workers end and their results are handled:
\* until hashingDone has run, every result handled has added one path to the
\* mapping and one to the progress counter; and at completion the groups
\* (as sets of paths), the candidate list (as a set) and the redundant
\* count shown are those of the content classes of the walk.
C18_OutcomeIsOrderIndependent ==
    /\ (scans > 0 /\ ~ScanCompleted) =>
           LET count == [k \in DOMAIN hashes |-> Len(hashes[k])]
           IN  hash_progress = Sum(count, DOMAIN hashes)
    /\ (ScanCompleted /\ removal = NoDialog) =>
           LET redundant == [c \in Classes |-> Cardinality(c) - 1]
           IN  /\ {Range(hashes[k]) : k \in DOMAIN hashes} = Classes
               /\ Range(candidates) = UNION Classes
               /\ edit_num_duplicates = Sum(redundant, Classes)

\* A scan has completed whose results were handled in an order other than
\* the order of the candidate list: a group lists a later candidate first.
C18_Witness ==
    /\ ScanCompleted
    /\ removal = NoDialog
    /\ \E k \in DOMAIN hashes :
          /\ Len(hashes[k]) >= 3
          /\ hashes[k][1] > hashes[k][2]

\* ---------------------------------------------------------------- C19
\* The occurrences of path p in the lists of the mapping.
Occurrences(p) ==
    LET count == [k \in DOMAIN hashes |->
                     Cardinality({i \in 1..Len(hashes[k]) : hashes[k][i] = p})]
    IN  Sum(count, DOMAIN hashes)

\* C19: in every state a path occurs at most once in the whole mapping (in
\* one list at most, and once in it); and at scan completion, before any
\* removal, the candidate list holds exactly the members of the groups of
\* the mapping, each once.
C19_MappingPartitionsCandidates ==
    /\ \A p \in Paths : Occurrences(p) <= 1
    /\ (ScanCompleted /\ removal = NoDialog) =>
           /\ Range(candidates) = Members(hashes)
           /\ Len(candidates) = Cardinality(Range(candidates))

\* A scan has completed with a group, and a candidate with bytes of its own
\* was dropped from the candidate list.
C19_Witness ==
    /\ ScanCompleted
    /\ removal = NoDialog
    /\ DOMAIN hashes # {}
    /\ \E p \in file_paths :
          /\ SharesSize(p)
          /\ ClassOf(p) = {p}
          /\ p \notin Range(candidates)

\* ---------------------------------------------------------------- C20
\* C20: a removal batch leaves alone every group none of whose members is
\* in the batch: its list in the mapping and its children in the tree are
\* the same after the batch, and its members that were candidates are
\* candidates still.  A removal step is a step that leaves a dialog result
\* and changes no worker, signal or counter.  A rejected batch changes no
\* group at all; a batch that is not rejected has deleted exactly its paths,
\* so it is one of the orders of the paths the step deleted.
C20_RemovalLeavesOtherGroups ==
    [][(removal' # NoDialog
           /\ UNCHANGED <<walker, pending, results, vanished, scans>>) =>
          IF removal' = "rejected"
          THEN UNCHANGED <<hashes, tree_duplicates, candidates>>
          ELSE \A items \in Orders(removed' \ removed) :
                  onButtonRemoveSelectedClicked(items) =>
                      \A k \in DOMAIN hashes :
                          Range(hashes[k]) \cap Range(items) = {} =>
                              /\ k \in DOMAIN hashes'
                              /\ hashes'[k] = hashes[k]
                              /\ k \in DOMAIN tree_duplicates =>
                                     /\ k \in DOMAIN tree_duplicates'
                                     /\ tree_duplicates'[k] = tree_duplicates[k]
                              /\ Range(hashes[k]) \cap Range(candidates)
                                     \subseteq Range(candidates')]_vars

\* A removal batch was accepted and deleted files, and a group of the scan
\* that it did not touch is whole, in the mapping, the tree and the
\* candidate list.
C20_Witness ==
    /\ removal = "accepted"
    /\ removed # {}
    /\ \E k \in DOMAIN hashes :
          /\ Range(hashes[k]) \cap removed = {}
          /\ Range(hashes[k]) = ClassOf(hashes[k][1])
          /\ k \in DOMAIN tree_duplicates
          /\ tree_duplicates[k] = hashes[k]
          /\ Range(hashes[k]) \subseteq Range(candidates)

====
